---- MODULE Spec2Model ----
(***************************************************************************)
(* py_landlock/sandbox.py: the Landlock syscall bridge, is_supported() and *)
(* Sandbox.apply(), as a state machine over the process's kernel-visible   *)
(* state (handle table, committed Landlock domain, no-new-privileges flag) *)
(* and the Sandbox instances' _applied flags.  Every syscall is one step,  *)
(* so that ordering, cleanup and failure at each step can be checked.      *)
(***************************************************************************)
EXTENDS Integers, Sequences, FiniteSets, TLC

(* ------------------------------ bounds --------------------------------- *)
\* size of the process's handle table (RLIMIT_NOFILE); a full table is EMFILE
MaxFd == 3
\* longest write_paths list given to a Sandbox
MaxPaths == 2

Instances == {"s1", "s2"}
\* the thread that runs the program, and a second one calling into the module
MainThread == "main"
Threads == {MainThread, "worker"}
Fds == 1..MaxFd

(* --------------------------- program constants ------------------------- *)
LANDLOCK_CREATE_RULESET_VERSION == 2^0
LANDLOCK_RULE_PATH_BENEATH == 2^0

LANDLOCK_ACCESS_FS_EXECUTE == 2^0
LANDLOCK_ACCESS_FS_WRITE_FILE == 2^1
LANDLOCK_ACCESS_FS_READ_FILE == 2^2
LANDLOCK_ACCESS_FS_READ_DIR == 2^3
LANDLOCK_ACCESS_FS_REMOVE_DIR == 2^4
LANDLOCK_ACCESS_FS_REMOVE_FILE == 2^5
LANDLOCK_ACCESS_FS_MAKE_CHAR == 2^6
LANDLOCK_ACCESS_FS_MAKE_DIR == 2^7
LANDLOCK_ACCESS_FS_MAKE_REG == 2^8
LANDLOCK_ACCESS_FS_MAKE_SOCK == 2^9
LANDLOCK_ACCESS_FS_MAKE_FIFO == 2^10
LANDLOCK_ACCESS_FS_MAKE_BLOCK == 2^11
LANDLOCK_ACCESS_FS_MAKE_SYM == 2^12

AccessBits == { 2^k : k \in 0..12 }

\* bit test and bitwise or on access masks (Python's & and | on ints)
HasBit(mask, bit) == (mask \div bit) % 2 = 1

BitOr(a, b) ==
    LET S == { x \in AccessBits : HasBit(a, x) \/ HasBit(b, x) }
        RECURSIVE Sum(_)
        Sum(T) == IF T = {} THEN 0
                  ELSE LET x == CHOOSE y \in T : TRUE IN x + Sum(T \ {x})
    IN Sum(S)

\* faulty variant: the mask governs every access right, reads included
ALL_ACCESS == 2 * LANDLOCK_ACCESS_FS_MAKE_SYM - 1

WRITE_ACCESS ==
    BitOr(LANDLOCK_ACCESS_FS_WRITE_FILE,
    BitOr(LANDLOCK_ACCESS_FS_REMOVE_DIR,
    BitOr(LANDLOCK_ACCESS_FS_REMOVE_FILE,
    BitOr(LANDLOCK_ACCESS_FS_MAKE_CHAR,
    BitOr(LANDLOCK_ACCESS_FS_MAKE_DIR,
    BitOr(LANDLOCK_ACCESS_FS_MAKE_REG,
    BitOr(LANDLOCK_ACCESS_FS_MAKE_SOCK,
    BitOr(LANDLOCK_ACCESS_FS_MAKE_FIFO,
    BitOr(LANDLOCK_ACCESS_FS_MAKE_BLOCK,
          LANDLOCK_ACCESS_FS_MAKE_SYM)))))))))

SUPPORTED_ARCHS == {"x86_64", "aarch64"}
\* values platform.machine() may report: one inside the set, one outside (the
\* code looks at the value only through membership in _SUPPORTED_ARCHS)
Machines == {"x86_64", "riscv64"}

(* ------------------------------ filesystem ----------------------------- *)
\* a location is the sequence of its path components; <<>> is "/"
Root == <<>>
DirA == <<"a">>
DirB == <<"b">>
Nodes == {Root, DirA, DirB, <<"a", "f">>, <<"b", "f">>}
InitialNodes == {Root, DirA, DirB}
Cwd == DirA

Parent(n) == IF n = Root THEN Root ELSE SubSeq(n, 1, Len(n) - 1)

\* n is at or beneath d
AtOrBeneath(n, d) == Len(d) <= Len(n) /\ SubSeq(n, 1, Len(d)) = d

\* caller-supplied path strings: absolute or relative, possibly with ".."
PathInputs ==
    { [abs |-> TRUE,  comps |-> <<"a">>],               \* "/a", a directory
      [abs |-> FALSE, comps |-> <<"..", "b", "f">>] }   \* "../b/f", absent at first

RECURSIVE normpath(_, _)
normpath(done, rest) ==
    IF rest = <<>> THEN done
    ELSE LET c == Head(rest) IN
         IF c = "." THEN normpath(done, Tail(rest))
         ELSE IF c = ".." THEN normpath(Parent(done), Tail(rest))
         ELSE normpath(Append(done, c), Tail(rest))

\* os.path.abspath: join with the working directory unless absolute, normalise
abspath(p) == normpath(<<>>, IF p.abs THEN p.comps ELSE Cwd \o p.comps)

PathLists == UNION { [1..k -> PathInputs] : k \in 0..MaxPaths }

(* ------------------------------- values -------------------------------- *)
NoErr == [kind |-> "none", errno |-> "", msg |-> ""]
RetNone == [kind |-> "return", errno |-> "", msg |-> "None"]
RetBool(b) == [kind |-> "return", errno |-> "", msg |-> IF b THEN "True" ELSE "False"]
Pending == [kind |-> "running", errno |-> "", msg |-> ""]
RuntimeError(m) == [kind |-> "RuntimeError", errno |-> "", msg |-> m]
\* raise FileNotFoundError(abs_path): one argument, no errno
FileNotFoundError == [kind |-> "FileNotFoundError", errno |-> "", msg |-> "abs_path"]
\* OSError(err, strerror): Python picks the subclass from the errno
OSError(e) ==
    [kind |-> IF e = "ENOENT" THEN "FileNotFoundError"
              ELSE IF e \in {"EACCES", "EPERM"} THEN "PermissionError"
              ELSE "OSError",
     errno |-> e, msg |-> "strerror"]

MsgApplied == "Sandbox has already been applied"
MsgArch == "Unsupported architecture for Landlock syscalls"
MsgOPath == "O_PATH is not supported on this platform"

\* error codes each kernel call may fail with (EMFILE: only with a full table)
CreateRulesetErrnos == {"ENOSYS", "EOPNOTSUPP", "EINVAL", "EMFILE"}
OpenErrnos == {"EACCES", "EMFILE"}
AddRuleErrnos == {"EINVAL"}
PrctlErrnos == {"EINVAL"}
RestrictSelfErrnos == {"EPERM"}

FreeEntry == [kind |-> "free", handled |-> 0, rules |-> {}, node |-> Root]

VARIABLES
    arch,        \* platform.machine()
    o_path,      \* whether os defines O_PATH
    exists,      \* locations present in the filesystem
    fdtable,     \* the process's handle table: fd -> kernel object
    domain,      \* committed Landlock rulesets (layers) of the process
    nnp,         \* the process's no-new-privileges flag
    write_paths, \* Sandbox.write_paths, per instance
    applied,     \* Sandbox._applied, per instance
    pc,          \* per thread: position in the running call
    call,        \* per thread: the call being run / last run
    self,        \* per thread: the Sandbox instance of the apply() call
    ruleset_fd,  \* per thread: apply()'s local ruleset_fd
    todo,        \* per thread: normalized paths still to be registered
    path_fd,     \* per thread: _allow_write()'s local fd
    exc,         \* per thread: exception propagating through finally blocks
    result,      \* per thread: outcome of the last call
    trace,       \* per thread: syscalls issued by the current / last call
    fds0,        \* per thread: handles open when the call began
    domain0,     \* per thread: committed domain when the call began
    applied0,    \* per thread: the instance's _applied when apply() began
    gate_checks  \* per thread: _ensure_supported_arch calls made by the call

vars == <<arch, o_path, exists, fdtable, domain, nnp, write_paths, applied,
          pc, call, self, ruleset_fd, todo, path_fd, exc, result, trace,
          fds0, domain0, applied0, gate_checks>>

platform == <<arch, o_path, write_paths>>
locals == <<ruleset_fd, todo, path_fd, exc>>

OpenFds == { fd \in Fds : fdtable[fd].kind # "free" }
FreeFds == Fds \ OpenFds
LowestFree == CHOOSE fd \in FreeFds : \A g \in FreeFds : fd <= g

\* one issued syscall: its name, the handle it returned or was given, its errno
Ev(op, arg, err) == [op |-> op, arg |-> arg, err |-> err]
Ok(e) == e.err = ""
Log(t, e) == trace' = [trace EXCEPT ![t] = Append(@, e)]

(* ------------------------- kernel enforcement -------------------------- *)
\* a ruleset layer lets `access` through at location n
LayerAllows(layer, access, n) ==
    HasBit(layer.handled, access) =>
        \E r \in layer.rules : HasBit(r.allowed, access) /\ AtOrBeneath(n, r.node)

\* every committed layer must let the operation through
Allowed(access, n) == \A layer \in domain : LayerAllows(layer, access, n)

\* open(n, "w") of a new file: create it in its directory and write it
CanWriteNewFile(n) ==
    /\ Allowed(LANDLOCK_ACCESS_FS_MAKE_REG, Parent(n))
    /\ Allowed(LANDLOCK_ACCESS_FS_WRITE_FILE, n)

(* ------------------------------- Init ---------------------------------- *)
Init ==
    /\ arch \in Machines
    /\ o_path \in BOOLEAN
    /\ exists = InitialNodes
    /\ fdtable = [fd \in Fds |-> FreeEntry]
    /\ domain = {}
    /\ nnp = FALSE
    /\ write_paths \in [Instances -> PathLists]
    /\ applied = [s \in Instances |-> FALSE]
    /\ pc = [t \in Threads |-> "idle"]
    /\ call = [t \in Threads |-> "none"]
    /\ self = [t \in Threads |-> "s1"]
    /\ ruleset_fd = [t \in Threads |-> 0]
    /\ todo = [t \in Threads |-> <<>>]
    /\ path_fd = [t \in Threads |-> 0]
    /\ exc = [t \in Threads |-> NoErr]
    /\ result = [t \in Threads |-> NoErr]
    /\ trace = [t \in Threads |-> <<>>]
    /\ fds0 = [t \in Threads |-> {}]
    /\ domain0 = [t \in Threads |-> {}]
    /\ applied0 = [t \in Threads |-> FALSE]
    /\ gate_checks = [t \in Threads |-> 0]

(* --------------------------- call / return ----------------------------- *)
Enter(t, name) ==
    /\ pc[t] = "idle"
    /\ call' = [call EXCEPT ![t] = name]
    /\ trace' = [trace EXCEPT ![t] = <<>>]
    /\ fds0' = [fds0 EXCEPT ![t] = OpenFds]
    /\ domain0' = [domain0 EXCEPT ![t] = domain]
    /\ gate_checks' = [gate_checks EXCEPT ![t] = 0]

\* the call ends with outcome r; its locals die
Return(t, r) ==
    /\ pc' = [pc EXCEPT ![t] = "idle"]
    /\ result' = [result EXCEPT ![t] = r]
    /\ ruleset_fd' = [ruleset_fd EXCEPT ![t] = 0]
    /\ todo' = [todo EXCEPT ![t] = <<>>]
    /\ path_fd' = [path_fd EXCEPT ![t] = 0]
    /\ exc' = [exc EXCEPT ![t] = NoErr]

Goto(t, label) == pc' = [pc EXCEPT ![t] = label]

(* ------------------------------ syscalls ------------------------------- *)
\* faulty variant: the gate lets every machine through
AnyArch == TRUE

\* _ensure_supported_arch: raises unless the machine has known syscall numbers
ArchSupported == arch \in SUPPORTED_ARCHS

\* the bridge function calls _ensure_supported_arch before its syscall
Gate(t) == gate_checks' = [gate_checks EXCEPT ![t] = @ + 1]

\* os.close(fd): the handle leaves the table and its kernel object is dropped
CloseFd(fd) == fdtable' = [fdtable EXCEPT ![fd] = FreeEntry]

\* kernel: landlock_create_ruleset returns a new handle on a fresh ruleset object
NewRuleset(handled) ==
    fdtable' = [fdtable EXCEPT ![LowestFree] =
                   [kind |-> "ruleset", handled |-> handled, rules |-> {}, node |-> Root]]

\* faulty variant: the rule is anchored at the directory holding the path
AddedRuleAtParent(rfd, pfd, allowed) ==
    fdtable' = [fdtable EXCEPT ![rfd].rules =
                   @ \cup {[node |-> Parent(fdtable[pfd].node), allowed |-> allowed]}]

\* faulty variant: the rule grants writing to existing files only
AddedRuleWriteFileOnly(rfd, pfd, allowed) ==
    fdtable' = [fdtable EXCEPT ![rfd].rules =
                   @ \cup {[node |-> fdtable[pfd].node,
                            allowed |-> LANDLOCK_ACCESS_FS_WRITE_FILE]}]

\* kernel: landlock_add_rule(ruleset_fd, PATH_BENEATH, {allowed, parent_fd})
AddedRule(rfd, pfd, allowed) ==
    fdtable' = [fdtable EXCEPT ![rfd].rules =
                   @ \cup {[node |-> fdtable[pfd].node, allowed |-> allowed]}]

\* kernel: landlock_restrict_self stacks the ruleset on the process's domain
Restricted(rfd) ==
    domain' = domain \cup {[handled |-> fdtable[rfd].handled, rules |-> fdtable[rfd].rules]}

(* ------------------------------ Sandbox.apply -------------------------- *)
\* _normalized_paths: absolute paths in order, or the first missing one
Missing(wp) == { i \in 1..Len(wp) : abspath(wp[i]) \notin exists }
FirstMissing(wp) == CHOOSE i \in Missing(wp) : \A j \in Missing(wp) : i <= j
Normalized(wp) == [i \in 1..Len(wp) |-> abspath(wp[i])]
\* the os.path.exists probes issued, up to and including the first miss
StatEvents(wp) ==
    LET n == IF Missing(wp) = {} THEN Len(wp) ELSE FirstMissing(wp)
    IN [i \in 1..n |-> Ev("stat", 0, IF abspath(wp[i]) \in exists THEN "" ELSE "ENOENT")]

\* faulty variant: the commit follows the rules directly
AfterRulesCommit == "restrict_self"

\* where apply() continues after each step
AfterGuard == "create_ruleset"
AfterCreate == "normalized_paths"
AfterRules == "set_no_new_privs"
AfterNoNewPrivs == "restrict_self"
\* faulty variant: with no path left to register the sequence is abandoned
AfterPathsSkipCommit(paths) == IF paths = <<>> THEN "close_ruleset" ELSE "open_path"
AfterPaths(paths) == IF paths = <<>> THEN AfterRules ELSE "open_path"

\* faulty variant: the guard never trips
NeverApplied(s) == FALSE

\* faulty variant: the guard looks at the process, not at the instance
ProcessRestricted(s) == applied[s] \/ domain # {}

\* line 124: the one-shot guard
AlreadyApplied(s) == applied[s]

\* apply(): entry and the _applied guard
ApplyEnter(t, s) ==
    /\ Enter(t, "apply")
    /\ self' = [self EXCEPT ![t] = s]
    /\ applied0' = [applied0 EXCEPT ![t] = applied[s]]
    /\ IF AlreadyApplied(s)
       THEN Return(t, RuntimeError(MsgApplied))
       ELSE /\ Goto(t, AfterGuard)
            /\ result' = [result EXCEPT ![t] = Pending]
            /\ UNCHANGED locals
    /\ UNCHANGED <<platform, exists, fdtable, domain, nnp, applied>>

\* ruleset_fd = _landlock_create_ruleset(_WRITE_ACCESS, 0)
CreateRuleset(t) ==
    /\ pc[t] = "create_ruleset"
    /\ IF ~ArchSupported
       THEN /\ Return(t, RuntimeError(MsgArch))
            /\ UNCHANGED <<fdtable, trace>>
       ELSE \/ /\ FreeFds # {}
               /\ NewRuleset(WRITE_ACCESS)
               /\ Log(t, Ev("landlock_create_ruleset", LowestFree, ""))
               /\ ruleset_fd' = [ruleset_fd EXCEPT ![t] = LowestFree]
               /\ Goto(t, AfterCreate)
               /\ UNCHANGED <<todo, path_fd, exc, result>>
            \/ \E e \in CreateRulesetErrnos :
               /\ e = "EMFILE" => FreeFds = {}
               /\ Log(t, Ev("landlock_create_ruleset", 0, e))
               /\ Return(t, OSError(e))
               /\ UNCHANGED fdtable
    /\ UNCHANGED <<platform, exists, domain, nnp, applied, call, self, fds0, domain0, applied0>>
    /\ Gate(t)

\* for path in self._normalized_paths(): evaluated once, inside the try
NormalizedPaths(t) ==
    /\ pc[t] = "normalized_paths"
    /\ LET wp == write_paths[self[t]] IN
       /\ trace' = [trace EXCEPT ![t] = @ \o StatEvents(wp)]
       /\ IF Missing(wp) # {}
          THEN /\ exc' = [exc EXCEPT ![t] = FileNotFoundError]
               /\ Goto(t, "close_ruleset")
               /\ UNCHANGED todo
          ELSE /\ todo' = [todo EXCEPT ![t] = Normalized(wp)]
               /\ Goto(t, AfterPaths(Normalized(wp)))
               /\ UNCHANGED exc
    /\ UNCHANGED <<platform, exists, fdtable, domain, nnp, applied, call, self,
                   ruleset_fd, path_fd, result, fds0, domain0, applied0>>
    /\ UNCHANGED gate_checks

\* _allow_write: the O_PATH check and fd = os.open(path, O_PATH | O_CLOEXEC)
OpenPath(t) ==
    /\ pc[t] = "open_path"
    /\ LET path == Head(todo[t]) IN
       IF ~o_path
       THEN /\ exc' = [exc EXCEPT ![t] = RuntimeError(MsgOPath)]
            /\ Goto(t, "close_ruleset")
            /\ UNCHANGED <<fdtable, path_fd, trace>>
       ELSE \/ /\ path \in exists
               /\ FreeFds # {}
               /\ fdtable' = [fdtable EXCEPT ![LowestFree] =
                     [kind |-> "path", handled |-> 0, rules |-> {}, node |-> path]]
               /\ path_fd' = [path_fd EXCEPT ![t] = LowestFree]
               /\ Log(t, Ev("open", LowestFree, ""))
               /\ Goto(t, "add_rule")
               /\ UNCHANGED exc
            \/ \E e \in OpenErrnos \cup {"ENOENT"} :
               /\ IF path \in exists THEN e \in OpenErrnos ELSE e = "ENOENT"
               /\ e = "EMFILE" => FreeFds = {}
               /\ Log(t, Ev("open", 0, e))
               /\ exc' = [exc EXCEPT ![t] = OSError(e)]
               /\ Goto(t, "close_ruleset")
               /\ UNCHANGED <<fdtable, path_fd>>
    /\ UNCHANGED <<platform, exists, domain, nnp, applied, call, self,
                   ruleset_fd, todo, result, fds0, domain0, applied0>>
    /\ UNCHANGED gate_checks

\* _landlock_add_rule(ruleset_fd, _LANDLOCK_RULE_PATH_BENEATH, fd, _WRITE_ACCESS)
AddRule(t) ==
    /\ pc[t] = "add_rule"
    /\ IF ~ArchSupported
       THEN /\ exc' = [exc EXCEPT ![t] = RuntimeError(MsgArch)]
            /\ UNCHANGED <<fdtable, trace>>
       ELSE \/ /\ AddedRule(ruleset_fd[t], path_fd[t], WRITE_ACCESS)
               /\ Log(t, Ev("landlock_add_rule", path_fd[t], ""))
               /\ UNCHANGED exc
            \/ \E e \in AddRuleErrnos :
               /\ Log(t, Ev("landlock_add_rule", path_fd[t], e))
               /\ exc' = [exc EXCEPT ![t] = OSError(e)]
               /\ UNCHANGED fdtable
    /\ Goto(t, "close_path")
    /\ UNCHANGED <<platform, exists, domain, nnp, applied, call, self,
                   ruleset_fd, todo, path_fd, result, fds0, domain0, applied0>>
    /\ Gate(t)

\* faulty variant: the path handle is closed after a successful add_rule only
ClosePathOnSuccess(t) ==
    /\ pc[t] = "close_path"
    /\ path_fd' = [path_fd EXCEPT ![t] = 0]
    /\ IF exc[t] # NoErr
       THEN /\ Goto(t, "close_ruleset")
            /\ UNCHANGED <<todo, fdtable, trace>>
       ELSE /\ CloseFd(path_fd[t])
            /\ Log(t, Ev("close", path_fd[t], ""))
            /\ todo' = [todo EXCEPT ![t] = Tail(@)]
            /\ Goto(t, AfterPaths(Tail(todo[t])))
    /\ UNCHANGED <<platform, exists, domain, nnp, applied, call, self,
                   ruleset_fd, exc, result, fds0, domain0, applied0>>
    /\ UNCHANGED gate_checks

\* faulty variant: a failed registration does not leave the loop
ClosePathAndGoOn(t) ==
    /\ pc[t] = "close_path"
    /\ CloseFd(path_fd[t])
    /\ Log(t, Ev("close", path_fd[t], ""))
    /\ path_fd' = [path_fd EXCEPT ![t] = 0]
    /\ todo' = [todo EXCEPT ![t] = Tail(@)]
    /\ Goto(t, AfterPaths(Tail(todo[t])))
    /\ UNCHANGED <<platform, exists, domain, nnp, applied, call, self,
                   ruleset_fd, exc, result, fds0, domain0, applied0>>
    /\ UNCHANGED gate_checks

\* _allow_write's finally: os.close(fd); then the next path, or out of the loop
ClosePath(t) ==
    /\ pc[t] = "close_path"
    /\ CloseFd(path_fd[t])
    /\ Log(t, Ev("close", path_fd[t], ""))
    /\ path_fd' = [path_fd EXCEPT ![t] = 0]
    /\ IF exc[t] # NoErr
       THEN /\ Goto(t, "close_ruleset")
            /\ UNCHANGED todo
       ELSE /\ todo' = [todo EXCEPT ![t] = Tail(@)]
            /\ Goto(t, AfterPaths(Tail(todo[t])))
    /\ UNCHANGED <<platform, exists, domain, nnp, applied, call, self,
                   ruleset_fd, exc, result, fds0, domain0, applied0>>
    /\ UNCHANGED gate_checks

\* faulty variant: the call reports success but the flag is not set
SetNoNewPrivsUndone(t) ==
    /\ pc[t] = "set_no_new_privs"
    /\ \/ /\ Log(t, Ev("prctl", 0, ""))
          /\ Goto(t, AfterNoNewPrivs)
          /\ UNCHANGED exc
       \/ \E e \in PrctlErrnos :
          /\ Log(t, Ev("prctl", 0, e))
          /\ exc' = [exc EXCEPT ![t] = OSError(e)]
          /\ Goto(t, "close_ruleset")
    /\ UNCHANGED <<platform, exists, fdtable, domain, nnp, applied, call, self,
                   ruleset_fd, todo, path_fd, result, fds0, domain0, applied0>>
    /\ UNCHANGED gate_checks

\* _set_no_new_privs: prctl(PR_SET_NO_NEW_PRIVS, 1, 0, 0, 0), no architecture gate
SetNoNewPrivs(t) ==
    /\ pc[t] = "set_no_new_privs"
    /\ \/ /\ nnp' = TRUE
          /\ Log(t, Ev("prctl", 0, ""))
          /\ Goto(t, AfterNoNewPrivs)
          /\ UNCHANGED exc
       \/ \E e \in PrctlErrnos :
          /\ Log(t, Ev("prctl", 0, e))
          /\ exc' = [exc EXCEPT ![t] = OSError(e)]
          /\ Goto(t, "close_ruleset")
          /\ UNCHANGED nnp
    /\ UNCHANGED <<platform, exists, fdtable, domain, applied, call, self,
                   ruleset_fd, todo, path_fd, result, fds0, domain0, applied0>>
    /\ UNCHANGED gate_checks

\* _landlock_restrict_self(ruleset_fd)
RestrictSelf(t) ==
    /\ pc[t] = "restrict_self"
    /\ IF ~ArchSupported
       THEN /\ exc' = [exc EXCEPT ![t] = RuntimeError(MsgArch)]
            /\ UNCHANGED <<domain, trace>>
       ELSE \/ /\ Restricted(ruleset_fd[t])
               /\ Log(t, Ev("landlock_restrict_self", ruleset_fd[t], ""))
               /\ UNCHANGED exc
            \/ \E e \in RestrictSelfErrnos :
               /\ Log(t, Ev("landlock_restrict_self", ruleset_fd[t], e))
               /\ exc' = [exc EXCEPT ![t] = OSError(e)]
               /\ UNCHANGED domain
    /\ Goto(t, "close_ruleset")
    /\ UNCHANGED <<platform, exists, fdtable, nnp, applied, call, self,
                   ruleset_fd, todo, path_fd, result, fds0, domain0, applied0>>
    /\ Gate(t)

\* faulty variant: the handle is closed on the success path only (no finally)
CloseRulesetOnSuccess(t) ==
    /\ pc[t] = "close_ruleset"
    /\ IF exc[t] # NoErr
       THEN /\ Return(t, exc[t])
            /\ UNCHANGED <<fdtable, trace>>
       ELSE /\ CloseFd(ruleset_fd[t])
            /\ Log(t, Ev("close", ruleset_fd[t], ""))
            /\ Goto(t, "set_applied")
            /\ UNCHANGED <<locals, result>>
    /\ UNCHANGED <<platform, exists, domain, nnp, applied, call, self, fds0, domain0, applied0>>
    /\ UNCHANGED gate_checks

\* faulty variant: the flag is set after the cleanup whatever happened before
CloseRulesetThenApplied(t) ==
    /\ pc[t] = "close_ruleset"
    /\ CloseFd(ruleset_fd[t])
    /\ Log(t, Ev("close", ruleset_fd[t], ""))
    /\ Goto(t, "set_applied")
    /\ UNCHANGED <<locals, result>>
    /\ UNCHANGED <<platform, exists, domain, nnp, applied, call, self, fds0, domain0, applied0>>
    /\ UNCHANGED gate_checks

\* apply()'s finally: os.close(ruleset_fd); a pending exception then leaves apply()
CloseRuleset(t) ==
    /\ pc[t] = "close_ruleset"
    /\ CloseFd(ruleset_fd[t])
    /\ Log(t, Ev("close", ruleset_fd[t], ""))
    /\ IF exc[t] # NoErr
       THEN Return(t, exc[t])
       ELSE /\ Goto(t, "set_applied")
            /\ UNCHANGED <<locals, result>>
    /\ UNCHANGED <<platform, exists, domain, nnp, applied, call, self, fds0, domain0, applied0>>
    /\ UNCHANGED gate_checks

\* self._applied = True
SetApplied(t) ==
    /\ pc[t] = "set_applied"
    /\ applied' = [applied EXCEPT ![self[t]] = TRUE]
    /\ Return(t, RetNone)
    /\ UNCHANGED <<platform, exists, fdtable, domain, nnp, call, self, trace,
                   fds0, domain0, applied0>>
    /\ UNCHANGED gate_checks

(* ------------------------------ is_supported --------------------------- *)
\* faulty variant: only "not implemented" is taken as absence
OnlyENOSYS == {"ENOSYS"}

\* line 112: the error codes that mean "no Landlock here"
NotSupportedErrnos == {"ENOSYS", "EOPNOTSUPP"}

\* faulty variant: is_supported goes straight to the probe
NoProbeGate == FALSE

\* line 107: the architecture test made by is_supported itself
ProbeGate == arch \notin SUPPORTED_ARCHS

\* is_supported(): entry and the architecture test
IsSupportedEnter(t) ==
    /\ Enter(t, "is_supported")
    /\ IF ProbeGate
       THEN Return(t, RetBool(FALSE))
       ELSE /\ Goto(t, "probe")
            /\ result' = [result EXCEPT ![t] = Pending]
            /\ UNCHANGED locals
    /\ applied0' = [applied0 EXCEPT ![t] = FALSE]
    /\ UNCHANGED <<platform, exists, fdtable, domain, nnp, applied, self>>

\* faulty variant: every failed probe is taken as "not supported"
ProbeFailureSwallowed(e) == RetBool(FALSE)

\* what is_supported does with a failed probe
ProbeFailure(e) == IF e \in NotSupportedErrnos THEN RetBool(FALSE) ELSE OSError(e)

\* _landlock_create_ruleset(None, _LANDLOCK_CREATE_RULESET_VERSION); the value
\* returned on success is dropped by is_supported
IsSupportedProbe(t) ==
    /\ pc[t] = "probe"
    /\ IF ~ArchSupported
       THEN /\ Return(t, RuntimeError(MsgArch))
            /\ UNCHANGED <<fdtable, trace>>
       ELSE \/ /\ FreeFds # {}
               /\ NewRuleset(0)
               /\ Log(t, Ev("landlock_create_ruleset", LowestFree, ""))
               /\ Return(t, RetBool(TRUE))
            \/ \E e \in CreateRulesetErrnos :
               /\ e = "EMFILE" => FreeFds = {}
               /\ Log(t, Ev("landlock_create_ruleset", 0, e))
               /\ Return(t, ProbeFailure(e))
               /\ UNCHANGED fdtable
    /\ UNCHANGED <<platform, exists, domain, nnp, applied, call, self, fds0, domain0, applied0>>
    /\ Gate(t)

(* ------------------------- the process's own writes -------------------- *)
\* open(n, "w") of a new file, as the integration test's child does
WriteNewFile(t, n) ==
    /\ Enter(t, "write")
    /\ n \notin exists
    /\ Parent(n) \in exists
    /\ IF CanWriteNewFile(n)
       THEN /\ exists' = exists \cup {n}
            /\ Return(t, RetNone)
       ELSE /\ Return(t, OSError("EACCES"))
            /\ UNCHANGED exists
    /\ applied0' = [applied0 EXCEPT ![t] = FALSE]
    /\ UNCHANGED <<platform, fdtable, domain, nnp, applied, self>>

\* the directories of the scenario; the other locations are regular files
IsDir(n) == n \in InitialNodes

\* reading something that is there: a file's content or a directory's entries
ReadFile(t, n) ==
    /\ Enter(t, "read")
    /\ n \in exists
    /\ LET access == IF IsDir(n) THEN LANDLOCK_ACCESS_FS_READ_DIR
                                 ELSE LANDLOCK_ACCESS_FS_READ_FILE
       IN IF Allowed(access, n)
          THEN Return(t, RetNone)
          ELSE Return(t, OSError("EACCES"))
    /\ applied0' = [applied0 EXCEPT ![t] = FALSE]
    /\ UNCHANGED <<platform, exists, fdtable, domain, nnp, applied, self>>

(* ------------------------------ specification -------------------------- *)
\* the program calls into the module from its main thread, one call at a time
Next ==
    \E t \in {MainThread} :
        \/ \E s \in Instances : ApplyEnter(t, s)
        \/ CreateRuleset(t)
        \/ NormalizedPaths(t)
        \/ OpenPath(t)
        \/ AddRule(t)
        \/ ClosePath(t)
        \/ SetNoNewPrivs(t)
        \/ RestrictSelf(t)
        \/ CloseRuleset(t)
        \/ SetApplied(t)
        \/ IsSupportedEnter(t)
        \/ IsSupportedProbe(t)
        \/ \E n \in Nodes : WriteNewFile(t, n)
        \/ \E n \in Nodes : ReadFile(t, n)

Spec == Init /\ [][Next]_vars

\* two threads each call apply() once; their steps interleave at every
\* statement (the interpreter may switch threads between any two bytecodes,
\* and ctypes releases the interpreter lock around each foreign call)
NextConc ==
    \E t \in Threads :
        \/ \E s \in Instances : call[t] = "none" /\ ApplyEnter(t, s)
        \/ CreateRuleset(t)
        \/ NormalizedPaths(t)
        \/ OpenPath(t)
        \/ AddRule(t)
        \/ ClosePath(t)
        \/ SetNoNewPrivs(t)
        \/ RestrictSelf(t)
        \/ CloseRuleset(t)
        \/ SetApplied(t)

SpecConc == Init /\ [][NextConc]_vars

(* ============================ properties =============================== *)
Returned(t, name) == pc[t] = "idle" /\ call[t] = name
Events(t, op) == { i \in DOMAIN trace[t] : trace[t][i].op = op }
Issued(t, op) == Events(t, op) # {}
Succeeded(t, op) == \E i \in Events(t, op) : Ok(trace[t][i])

\* the write-class operations named by the specification
WriteClassOps ==
    { LANDLOCK_ACCESS_FS_WRITE_FILE, LANDLOCK_ACCESS_FS_REMOVE_DIR,
      LANDLOCK_ACCESS_FS_REMOVE_FILE, LANDLOCK_ACCESS_FS_MAKE_CHAR,
      LANDLOCK_ACCESS_FS_MAKE_DIR, LANDLOCK_ACCESS_FS_MAKE_REG,
      LANDLOCK_ACCESS_FS_MAKE_SOCK, LANDLOCK_ACCESS_FS_MAKE_FIFO,
      LANDLOCK_ACCESS_FS_MAKE_BLOCK, LANDLOCK_ACCESS_FS_MAKE_SYM }

\* instance s was given the single path A and has been applied
AppliedWithOnePath(s) == applied[s] /\ Len(write_paths[s]) = 1
OnlyPath(s) == abspath(write_paths[s][1])

\* C1 (as stated): once Sandbox(write_paths=[A]) is applied, a write-class
\* operation is allowed exactly at the locations at or beneath A, from then on.
C1_AllowedExactlyBeneath ==
    \A s \in Instances : AppliedWithOnePath(s) =>
        \A n \in Nodes, a \in WriteClassOps :
            Allowed(a, n) <=> AtOrBeneath(n, OnlyPath(s))

\* C1 (amended): once Sandbox(write_paths=[A]) is applied, every write-class
\* operation at a location not at or beneath A is denied from then on, and
\* every write-class operation at or beneath A is allowed as long as no
\* different ruleset has been committed to the process as well.
C1_WriteConfinement ==
    \A s \in Instances : AppliedWithOnePath(s) =>
        \A n \in Nodes, a \in WriteClassOps :
            /\ ~AtOrBeneath(n, OnlyPath(s)) => ~Allowed(a, n)
            /\ AtOrBeneath(n, OnlyPath(s)) /\ Cardinality(domain) = 1 => Allowed(a, n)

\* a Sandbox with one path is applied, its ruleset is the only one committed,
\* a file was written beneath the path and a write elsewhere has just been denied
C1_Witness ==
    \E s \in Instances, t \in Threads :
        /\ AppliedWithOnePath(s)
        /\ Cardinality(domain) = 1
        /\ OnlyPath(s) = DirA
        /\ <<"a", "f">> \in exists
        /\ domain0[t] = domain
        /\ Returned(t, "write")
        /\ result[t] = OSError("EACCES")

\* C2: no partial application.  In every apply() call the instance turns
\* Applied only when restrict_self has succeeded; a call in which restrict_self
\* succeeded ends with the instance Applied; every other call ends with the
\* instance as it was, the ruleset handle gone and the committed domain as
\* it was before the call.
C2_NoPartialApplication ==
    \A t \in Threads : call[t] = "apply" =>
        LET committed == Succeeded(t, "landlock_restrict_self") IN
        /\ (applied[self[t]] /\ ~applied0[t]) => committed
        /\ ~committed => domain = domain0[t]
        /\ Returned(t, "apply") =>
              IF committed
              THEN applied[self[t]] /\ ~applied0[t] /\ result[t] = RetNone
              ELSE /\ applied[self[t]] = applied0[t]
                   /\ result[t] # RetNone
                   /\ OpenFds = fds0[t]

\* an apply() that got as far as restrict_self and failed there has returned
C2_Witness ==
    \E t \in Threads :
        /\ Returned(t, "apply")
        /\ Issued(t, "landlock_restrict_self")
        /\ ~Succeeded(t, "landlock_restrict_self")
        /\ Issued(t, "landlock_add_rule")

\* C3: apply() on an instance that is already Applied fails with the
\* "already applied" error, issues no syscall and leaves the instance Applied.
C3_SecondApplyIsMisuse ==
    \A t \in Threads : (call[t] = "apply" /\ applied0[t]) =>
        /\ Returned(t, "apply")
        /\ result[t] = RuntimeError(MsgApplied)
        /\ trace[t] = <<>>
        /\ applied[self[t]]
        /\ OpenFds = fds0[t]
        /\ domain = domain0[t]

\* apply() was called on an Applied instance and has returned
C3_Witness ==
    \E t \in Threads : Returned(t, "apply") /\ applied0[t] /\ applied[self[t]]

\* the instance of the running / last apply() has a configured path that is absent
HasMissingPath(t) == Missing(write_paths[self[t]]) # {}

\* C4 (as stated): when a configured path does not exist, apply() touches the
\* kernel not at all before failing with Not-Found: no ruleset is created and
\* no path is registered.
C4_PathCheckBeforeKernel ==
    \A t \in Threads : (call[t] = "apply" /\ ~applied0[t] /\ HasMissingPath(t)) =>
        /\ ~Issued(t, "landlock_create_ruleset")
        /\ ~Issued(t, "landlock_add_rule")
        /\ Returned(t, "apply") => result[t] = FileNotFoundError

\* C5 (as stated, on a supported architecture): apply() on an Unapplied
\* instance with an absent configured path fails with Not-Found, issues no
\* add_rule, prctl or restrict_self, leaves the committed domain and so what
\* may be written as they were, and leaves the instance Unapplied.
C5_MissingPathIsNotFound ==
    \A t \in Threads :
        (Returned(t, "apply") /\ ~applied0[t] /\ HasMissingPath(t) /\ ArchSupported) =>
            /\ result[t] = FileNotFoundError
            /\ ~Issued(t, "landlock_add_rule")
            /\ ~Issued(t, "prctl")
            /\ ~Issued(t, "landlock_restrict_self")
            /\ domain = domain0[t]
            /\ ~applied[self[t]]

\* C6: when apply() has returned, with or without an error, the handles open
\* are those open before the call, and a ruleset handle created by the call
\* was closed exactly once.
C6_RulesetHandleReleased ==
    \A t \in Threads : Returned(t, "apply") =>
        /\ OpenFds = fds0[t]
        /\ \A i \in Events(t, "landlock_create_ruleset") : Ok(trace[t][i]) =>
              Cardinality({ j \in Events(t, "close") :
                              trace[t][j].arg = trace[t][i].arg }) = 1

\* an apply() that created its ruleset and then failed has returned
C6_Witness ==
    \E t \in Threads :
        /\ Returned(t, "apply")
        /\ Succeeded(t, "landlock_create_ruleset")
        /\ result[t] = OSError("EINVAL")
        /\ Issued(t, "landlock_add_rule")

\* C7 (as stated): when is_supported() has returned, the handles open are
\* those open before the call.
C7_ProbeHandleReleased ==
    \A t \in Threads : Returned(t, "is_supported") => OpenFds = fds0[t]

\* position of a syscall in the order create, rules, no-new-privs, commit, release
StepRank(e, rfd) ==
    CASE e.op = "landlock_create_ruleset" -> 1
      [] e.op \in {"stat", "open", "landlock_add_rule"} -> 2
      [] e.op = "close" -> IF e.arg = rfd THEN 5 ELSE 2
      [] e.op = "prctl" -> 3
      [] e.op = "landlock_restrict_self" -> 4

\* C8: in every apply() the syscalls come in the order create_ruleset, the
\* rule registrations, set_no_new_privileges, restrict_self; prctl is issued
\* only after one successful add_rule per configured path and no failed one,
\* and restrict_self only right after a successful prctl of the same call.
C8_StepOrder ==
    \A t \in Threads : call[t] = "apply" =>
        LET tr == trace[t]
            rfd == IF tr = <<>> THEN 0 ELSE tr[1].arg
        IN
        /\ tr # <<>> => tr[1].op = "landlock_create_ruleset"
        /\ \A i, j \in DOMAIN tr : i < j =>
              /\ StepRank(tr[i], rfd) <= StepRank(tr[j], rfd)
              /\ StepRank(tr[i], rfd) \in {1, 3, 4, 5} =>
                    StepRank(tr[i], rfd) < StepRank(tr[j], rfd)
        /\ \A i \in Events(t, "prctl") :
              /\ \A j \in Events(t, "landlock_add_rule") : j < i /\ Ok(tr[j])
              /\ Cardinality(Events(t, "landlock_add_rule")) = Len(write_paths[self[t]])
        /\ \A i \in Events(t, "landlock_restrict_self") :
              i > 1 /\ tr[i - 1].op = "prctl" /\ Ok(tr[i - 1])

\* an apply() with two configured paths has committed its ruleset
C8_Witness ==
    \E t \in Threads :
        /\ call[t] = "apply"
        /\ Len(write_paths[self[t]]) = 2
        /\ Succeeded(t, "landlock_restrict_self")

\* C9: on an architecture outside the supported set is_supported() returns
\* False and issues no syscall.
C9_ProbeGatedByArch ==
    \A t \in Threads : (call[t] = "is_supported" /\ arch \notin {"x86_64", "aarch64"}) =>
        /\ Returned(t, "is_supported")
        /\ result[t] = RetBool(FALSE)
        /\ trace[t] = <<>>
        /\ OpenFds = fds0[t]

\* is_supported() has been called and has returned on another architecture
C9_Witness ==
    \E t \in Threads : Returned(t, "is_supported") /\ arch = "riscv64"

IsBool(r) == r \in {RetBool(TRUE), RetBool(FALSE)}

\* C10 (as stated): on a supported architecture is_supported() returns a
\* boolean whatever the outcome of the version probe.
C10_ProbeNeverRaises ==
    \A t \in Threads :
        (Returned(t, "is_supported") /\ arch \in {"x86_64", "aarch64"}) => IsBool(result[t])

\* C10 (amended): on a supported architecture is_supported() returns a boolean
\* when the version probe succeeds or fails with ENOSYS or EOPNOTSUPP; when the
\* probe fails with any other error code it raises an OSError with that code.
C10_ProbeRaisesOnlyOtherErrors ==
    \A t \in Threads :
        (Returned(t, "is_supported") /\ arch \in {"x86_64", "aarch64"}) =>
            /\ Len(trace[t]) = 1
            /\ trace[t][1].op = "landlock_create_ruleset"
            /\ IF trace[t][1].err \in {"", "ENOSYS", "EOPNOTSUPP"}
               THEN IsBool(result[t])
               ELSE /\ result[t].kind \in {"OSError", "PermissionError", "FileNotFoundError"}
                    /\ result[t].errno = trace[t][1].err

\* is_supported() has returned after a probe that failed with EOPNOTSUPP
C10_Witness ==
    \E t \in Threads :
        /\ Returned(t, "is_supported")
        /\ trace[t] # <<>>
        /\ trace[t][1].err = "EOPNOTSUPP"

\* the version probe of the last is_supported() call
ProbeEvent(t) == trace[t][1]

\* C11: on a supported architecture is_supported() returns True exactly when
\* the version probe succeeded, False exactly when it failed with ENOSYS or
\* EOPNOTSUPP, and otherwise raises the error with the probe's error code.
C11_ProbeOutcome ==
    \A t \in Threads :
        (Returned(t, "is_supported") /\ arch \in {"x86_64", "aarch64"}) =>
            /\ Events(t, "landlock_create_ruleset") = {1}
            /\ (result[t] = RetBool(TRUE)) = (ProbeEvent(t).err = "")
            /\ (result[t] = RetBool(FALSE)) = (ProbeEvent(t).err \in {"ENOSYS", "EOPNOTSUPP"})
            /\ ProbeEvent(t).err \notin {"", "ENOSYS", "EOPNOTSUPP"} =>
                  /\ result[t].kind = "OSError"
                  /\ result[t].errno = ProbeEvent(t).err

\* is_supported() has raised the EINVAL of its probe
C11_Witness ==
    \E t \in Threads :
        /\ Returned(t, "is_supported")
        /\ trace[t] # <<>>
        /\ ProbeEvent(t).err = "EINVAL"
        /\ result[t].kind = "OSError"

\* the read-class operations named by the specification
ReadClassOps ==
    { LANDLOCK_ACCESS_FS_EXECUTE, LANDLOCK_ACCESS_FS_READ_FILE,
      LANDLOCK_ACCESS_FS_READ_DIR }

\* C12: no ruleset the sandbox creates or commits governs execute, read-file
\* or read-dir, so these are allowed at every location before and after any
\* apply(), and every read made by the process succeeds.
C12_ReadsUnaffected ==
    /\ \A a \in ReadClassOps :
          /\ \A layer \in domain : ~HasBit(layer.handled, a)
          /\ \A fd \in OpenFds : ~HasBit(fdtable[fd].handled, a)
          /\ \A n \in Nodes : Allowed(a, n)
    /\ \A t \in Threads : Returned(t, "read") => result[t] = RetNone

\* a read has succeeded in a process to which a ruleset without any allowed
\* path is committed
C12_Witness ==
    \E t \in Threads :
        /\ Returned(t, "read")
        /\ result[t] = RetNone
        /\ \E layer \in domain : layer.rules = {}

\* the raw landlock syscalls of the current call
LandlockOps ==
    {"landlock_create_ruleset", "landlock_add_rule", "landlock_restrict_self"}
LandlockEvents(t) == { i \in DOMAIN trace[t] : trace[t][i].op \in LandlockOps }

\* C13: on a machine outside the supported set apply() fails with the
\* unsupported-architecture error without having issued any syscall or opened
\* any handle, and the instance stays unapplied; on a supported machine every
\* raw landlock syscall issued was preceded by a gate check in its own bridge
\* call.
C13_GateBeforeSyscall ==
    \A t \in Threads :
        /\ (call[t] = "apply" /\ ~applied0[t] /\ arch \notin {"x86_64", "aarch64"}) =>
              /\ pc[t] \in {"create_ruleset", "idle"}
              /\ Returned(t, "apply") => result[t] = RuntimeError(MsgArch)
              /\ trace[t] = <<>>
              /\ OpenFds = fds0[t]
              /\ ~applied[self[t]]
        /\ Cardinality(LandlockEvents(t)) <= gate_checks[t]
        /\ arch \in {"x86_64", "aarch64"} =>
              Cardinality(LandlockEvents(t)) = gate_checks[t]

\* apply() has been turned away by the gate on a machine outside the set
C13_Witness ==
    \E t \in Threads :
        /\ Returned(t, "apply")
        /\ arch = "riscv64"
        /\ result[t] = RuntimeError(MsgArch)
        /\ gate_checks[t] = 1

\* the path handles now open
PathFds == { fd \in OpenFds : fdtable[fd].kind = "path" }

\* C14: a path handle is open only between its own open and the close that
\* follows its add_rule: at most one is open at any point of apply(), none
\* while the next path is opened, while prctl or restrict_self run, or once
\* apply() has returned; every successful open is followed at once by the
\* add_rule on that handle and then by its close, whatever add_rule returned.
C14_PathHandleScoped ==
    /\ Cardinality(PathFds) <= 1
    /\ PathFds # {} =>
          \E t \in Threads : pc[t] \in {"add_rule", "close_path"} /\ PathFds = {path_fd[t]}
    /\ \A t \in Threads :
        /\ \A i \in Events(t, "open") : Ok(trace[t][i]) =>
              /\ i + 1 \in DOMAIN trace[t] =>
                    /\ trace[t][i + 1].op = "landlock_add_rule"
                    /\ trace[t][i + 1].arg = trace[t][i].arg
              /\ i + 2 \in DOMAIN trace[t] =>
                    trace[t][i + 2] = Ev("close", trace[t][i].arg, "")
              /\ pc[t] \notin {"add_rule", "close_path"} => i + 2 \in DOMAIN trace[t]

\* apply() has returned after an add_rule that failed on an open path handle
C14_Witness ==
    \E t \in Threads :
        /\ Returned(t, "apply")
        /\ \E i \in Events(t, "landlock_add_rule") :
              /\ ~Ok(trace[t][i])
              /\ trace[t][i + 1] = Ev("close", trace[t][i].arg, "")
        /\ PathFds = {}

\* the add_rule calls of the current call, and those that succeeded
AddRuleEvents(t) == Events(t, "landlock_add_rule")
RulesAdded(t) == Cardinality({ i \in AddRuleEvents(t) : Ok(trace[t][i]) })

\* C15: apply() issues one add_rule per configured path, in the order given,
\* and retries nothing: the ruleset holds the first k paths after k successful
\* registrations, all paths once prctl is reached; after a failed open or
\* add_rule nothing but the handles' closes is issued (no further rule, no
\* prctl, no restrict_self), the caller gets the failing call's error code,
\* and the instance stays unapplied.
C15_OneRulePerPathNoRetry ==
    \A t \in Threads : (call[t] = "apply" /\ ~applied0[t]) =>
        LET wp == write_paths[self[t]] IN
        /\ Cardinality(AddRuleEvents(t)) <= Len(wp)
        /\ RulesAdded(t) <= Len(wp)
        /\ (ruleset_fd[t] # 0 /\ fdtable[ruleset_fd[t]].kind = "ruleset") =>
              { r.node : r \in fdtable[ruleset_fd[t]].rules } =
                  { abspath(wp[i]) : i \in 1..RulesAdded(t) }
        /\ Issued(t, "prctl") => RulesAdded(t) = Len(wp)
        /\ \A i \in DOMAIN trace[t] :
              (trace[t][i].op \in {"open", "landlock_add_rule"} /\ ~Ok(trace[t][i])) =>
                  /\ \A j \in DOMAIN trace[t] : j > i => trace[t][j].op = "close"
                  /\ Returned(t, "apply") =>
                        /\ result[t] = OSError(trace[t][i].err)
                        /\ ~applied[self[t]]

\* apply() with two paths has returned after registering the first and
\* failing to register the second
C15_Witness ==
    \E t \in Threads :
        /\ Returned(t, "apply")
        /\ Len(write_paths[self[t]]) = 2
        /\ RulesAdded(t) = 1
        /\ Cardinality(AddRuleEvents(t)) = 2
        /\ result[t] = OSError("EINVAL")

\* the bit positions set in an access mask
MaskBits(m) == { k \in 0..12 : HasBit(m, 2^k) }

\* the rulesets in existence: those committed and those still being built
Rulesets ==
    domain \cup { [handled |-> fdtable[fd].handled, rules |-> fdtable[fd].rules] :
                     fd \in { g \in OpenFds : fdtable[g].kind = "ruleset"
                                              /\ fdtable[g].handled # 0 } }

\* C16: every ruleset apply() builds governs exactly bit 1 and bits 4..12 (the
\* ten write-class operations), and every path rule in it allows exactly the
\* mask the ruleset governs.
C16_SingleMask ==
    \A rs \in Rulesets :
        /\ MaskBits(rs.handled) = {1} \cup (4..12)
        /\ rs.handled < 2^13
        /\ \A a \in AccessBits : HasBit(rs.handled, a) <=> a \in WriteClassOps
        /\ \A r \in rs.rules : r.allowed = rs.handled

\* a ruleset holding a path rule has been committed
C16_Witness == \E layer \in domain : layer.rules # {}

\* thread t's apply() call has committed its ruleset
Committed(t) == call[t] = "apply" /\ Succeeded(t, "landlock_restrict_self")

\* C17 (as stated): when two threads call apply() on the same unapplied
\* instance, whatever the interleaving, at most one of them runs the syscall
\* sequence through to committing a ruleset (the other is turned away).
C17_AtMostOneCommit ==
    \A t1, t2 \in Threads :
        (t1 # t2 /\ call[t1] = "apply" /\ call[t2] = "apply" /\ self[t1] = self[t2]) =>
            ~(Committed(t1) /\ Committed(t2))

\* the current apply() call set the flag and then failed to commit
CommitFailedAfterFlag(t) ==
    /\ call[t] = "apply"
    /\ \E i \in Events(t, "prctl") : Ok(trace[t][i])
    /\ \E j \in Events(t, "landlock_restrict_self") : ~Ok(trace[t][j])

\* C18: when prctl succeeded and restrict_self then failed, the process has
\* the no-new-privileges flag set, although apply() fails with the commit's
\* error, the instance is unapplied and the process's domain is what it was.
C18_FlagSurvivesFailedCommit ==
    \A t \in Threads : CommitFailedAfterFlag(t) =>
        /\ nnp
        /\ domain = domain0[t]
        /\ ~applied[self[t]]
        /\ pc[t] \in {"close_ruleset", "idle"}
        /\ Returned(t, "apply") => result[t] = OSError("EPERM")

\* apply() has failed at the commit in a process under no ruleset at all
C18_Witness ==
    \E t \in Threads :
        /\ CommitFailedAfterFlag(t)
        /\ Returned(t, "apply")
        /\ domain = {}
        /\ \A s \in Instances : ~applied[s]

\* C19: an instance with no write paths applies with create_ruleset, prctl,
\* restrict_self and the handle's close and nothing else, and once it is
\* applied every write-class operation is denied at every location.
C19_EmptyListDeniesAll ==
    /\ \A s \in Instances : (applied[s] /\ write_paths[s] = <<>>) =>
          \A a \in WriteClassOps, n \in Nodes : ~Allowed(a, n)
    /\ \A t \in Threads :
          (call[t] = "apply" /\ ~applied0[t] /\ write_paths[self[t]] = <<>>) =>
              /\ \A i \in DOMAIN trace[t] :
                    trace[t][i].op \notin {"stat", "open", "landlock_add_rule"}
              /\ (Returned(t, "apply") /\ result[t] = RetNone) =>
                    /\ Len(trace[t]) = 4
                    /\ trace[t][1].op = "landlock_create_ruleset"
                    /\ trace[t][2] = Ev("prctl", 0, "")
                    /\ trace[t][3] = Ev("landlock_restrict_self", trace[t][1].arg, "")
                    /\ trace[t][4] = Ev("close", trace[t][1].arg, "")
                    /\ applied[self[t]]

\* a write was refused in a process where an instance without paths is applied
C19_Witness ==
    \E t \in Threads :
        /\ Returned(t, "write")
        /\ result[t] = OSError("EACCES")
        /\ \E s \in Instances : applied[s] /\ write_paths[s] = <<>>

\* C20: apply() is refused as already applied exactly when its own instance
\* was applied at entry, whatever happened to the process or to other
\* instances before; every apply() that passes the guard on a supported
\* machine issues create_ruleset, works on a handle created in this call and
\* open throughout, and returns success only after its own create_ruleset,
\* prctl and restrict_self.
C20_GuardPerInstance ==
    \A t \in Threads : call[t] = "apply" =>
        /\ Returned(t, "apply") =>
              ((result[t] = RuntimeError(MsgApplied)) = applied0[t])
        /\ (~applied0[t] /\ arch \in {"x86_64", "aarch64"}
               /\ pc[t] # "create_ruleset") =>
              /\ trace[t] # <<>>
              /\ trace[t][1].op = "landlock_create_ruleset"
        /\ (ruleset_fd[t] # 0 /\ pc[t] # "set_applied") =>
              /\ fdtable[ruleset_fd[t]].kind = "ruleset"
              /\ ruleset_fd[t] \notin fds0[t]
              /\ trace[t][1] = Ev("landlock_create_ruleset", ruleset_fd[t], "")
        /\ (Returned(t, "apply") /\ result[t] = RetNone) =>
              /\ Succeeded(t, "landlock_create_ruleset")
              /\ Succeeded(t, "prctl")
              /\ Succeeded(t, "landlock_restrict_self")

\* an instance whose earlier apply() failed at the commit is being applied
\* again and holds a new ruleset handle: the flag is set, nothing is
\* committed, and the other instance can never have got as far as prctl
C20_Witness ==
    \E t \in Threads :
        /\ call[t] = "apply"
        /\ Succeeded(t, "landlock_create_ruleset")
        /\ ~Issued(t, "prctl")
        /\ nnp
        /\ domain = {}
        /\ \A s \in Instances \ {self[t]} :
              ~applied[s] /\ \E i \in DOMAIN write_paths[s] : abspath(write_paths[s][i]) \notin exists

====
